---------------------------- MODULE Spec2Model ----------------------------
(***************************************************************************)
(* A model of the static-file HTTP server of src/main/main.cpp: the pure   *)
(* functions (sanitize_path, parse_request_path, get_mime_type) as         *)
(* operators over C strings, and http_server_task / handle_client /        *)
(* send_file / send_404 as a state machine over the sockets and the file.  *)
(*                                                                         *)
(* A C string is a sequence of one-character strings (without the          *)
(* terminating NUL); no modelled input holds an embedded NUL byte.         *)
(***************************************************************************)
EXTENDS Integers, Sequences, FiniteSets, TLC

VARIABLES
    \* the function harnesses
    arg,          \* the argument handed to the function under check
    res,          \* what the function wrote into its output buffer
    applied,      \* "no" until the function has been applied
    \* http_server_task
    pc,           \* the position of the server task
    listen_sock,  \* "none", "open" or "closed"
    accepted,     \* how many connections accept has returned
    client_sock,  \* the connection in hand (0: none yet, -1: accept failed)
    \* the collaborators
    fs,           \* the mounted filesystem: path -> bytes, for the files present
    closes,       \* per connection, how many times close was called on it
    shutdowns,    \* per connection, how many times shutdown was called on it
    delivered,    \* the bytes the transport accepted on the latest connection
    \* handle_client
    r,            \* the result of recv
    recv_buf,
    req_path,
    safe_path,
    \* send_file
    fullpath,
    isFallback,
    f,            \* the open FILE: NULL, or the path it was opened on
    fpos,         \* the read offset of f
    filesize,
    buf,          \* the chunk fread returned (r of send_file is Len(buf))
    sent,
    \* bookkeeping of the calls made on the connection in hand
    response,     \* "none", or the status whose header send was called
    hdr_sent,     \* how many bytes of the header the transport accepted
    failed,       \* the sends that reported failure: "header", "body", "404"
    nsend,        \* how many send calls were made
    stalls,       \* how many body sends returned 0
    \* the record of the calls made on the collaborators
    nrecv,        \* how many recv calls were made on the connection in hand
    opens,        \* the fopen calls made for it: <<path, isFallback, opened>>
    nopen,        \* how many FILE handles are open (fopen without fclose)
    earlier       \* "off", "none", or the request and response of a
                  \* connection served before the one in hand

hvars == <<arg, res, applied>>

tvars == <<pc, listen_sock, accepted, client_sock>>

cvars == <<fs, closes, shutdowns, delivered>>

lvars == <<r, recv_buf, req_path, safe_path, fullpath, isFallback, f, fpos,
           filesize, buf, sent>>

gvars == <<response, hdr_sent, failed, nsend, stalls>>

avars == <<nrecv, opens, nopen, earlier>>

svars == <<tvars, cvars, lvars, gvars, avars>>

vars == <<hvars, svars>>

-----------------------------------------------------------------------------
(* Program constants *)

SPIFFS_BASE_PATH == <<"/", "s", "p", "i", "f", "f", "s">>

IndexHtml == <<"i", "n", "d", "e", "x", ".", "h", "t", "m", "l">>

FALLBACK_PATH == <<"/", "s", "p", "i", "f", "f", "s", "/", "i", "n", "d", "e", "x", ".", "h", "t", "m", "l">>

\* sizeof(tmp) in sanitize_path
TmpSize == 256

\* sizeof(req_path) in handle_client
ReqPathSize == 256

\* sizeof(safe_path) in handle_client
SafePathSize == 256

\* the null pointer, as a value no C string equals
NULL == <<"NULL">>

-----------------------------------------------------------------------------
(* libc helpers *)

Min(a, b) == IF a <= b THEN a ELSE b

\* strchr(s + from - 1, c): the 1-based index of the first c at or after
\* from, 0 for a null result
StrChr(s, from, c) ==
    LET hits == {i \in from..Len(s) : s[i] = c}
    IN  IF hits = {} THEN 0
        ELSE CHOOSE i \in hits : \A j \in hits : i <= j

\* snprintf(buf, buflen, "%s", s): at most buflen - 1 characters are written
snprintf(s, buflen) == SubSeq(s, 1, Min(Len(s), buflen - 1))

-----------------------------------------------------------------------------
(* sanitize_path *)

\* the test with the segment length off by one: ".." is never matched
IsDotDot_len3(p, seg, len) == len = 3 /\ p[seg] = "." /\ p[seg + 1] = "."

\* the test of line 79: the segment of length len at seg is ".."
IsDotDot(p, seg, len) == len = 2 /\ p[seg] = "." /\ p[seg + 1] = "."

\* the while loop of lines 70-89; seg is the 1-based index of the segment
\* start in p, tmp the accumulator (ti = Len(tmp))
RECURSIVE SegLoop(_, _, _)

\* the loop without the test of line 74: an empty segment is appended like
\* any other, separator included
SegLoop_noskip(p, seg, tmp) ==
    IF ~(seg <= Len(p) /\ Len(tmp) + 1 < TmpSize) THEN tmp
    ELSE LET next == StrChr(p, seg, "/")
             len  == IF next # 0 THEN next - seg ELSE Len(p) - seg + 1
             adv  == IF next # 0 THEN next + 1 ELSE seg + len
         IN  IF IsDotDot(p, seg, len) THEN SegLoop(p, adv, tmp)
             ELSE IF Len(tmp) + len + 1 >= TmpSize THEN tmp
             ELSE SegLoop(p, adv,
                          (IF Len(tmp) # 0 THEN tmp \o <<"/">> ELSE tmp)
                              \o SubSeq(p, seg, seg + len - 1))

SegLoop(p, seg, tmp) ==
    IF ~(seg <= Len(p) /\ Len(tmp) + 1 < TmpSize) THEN tmp
    ELSE LET next == StrChr(p, seg, "/")
             len  == IF next # 0 THEN next - seg ELSE Len(p) - seg + 1
             adv  == IF next # 0 THEN next + 1 ELSE seg + len
         IN  IF len = 0 THEN SegLoop(p, adv, tmp)
             ELSE IF IsDotDot(p, seg, len) THEN SegLoop(p, adv, tmp)
             ELSE IF Len(tmp) + len + 1 >= TmpSize THEN tmp
             ELSE SegLoop(p, adv,
                          (IF Len(tmp) # 0 THEN tmp \o <<"/">> ELSE tmp)
                              \o SubSeq(p, seg, seg + len - 1))

\* the empty accumulator used as it is, without the index document
sanitize_path_noindex(path, buflen) ==
    IF path = NULL \/ path = <<"/">>
    THEN snprintf(SPIFFS_BASE_PATH \o <<"/">> \o IndexHtml, buflen)
    ELSE LET p   == IF Len(path) > 0 /\ path[1] = "/"
                    THEN Tail(path) ELSE path
             tmp == SegLoop(p, 1, <<>>)
         IN  snprintf(SPIFFS_BASE_PATH \o <<"/">> \o tmp, buflen)

sanitize_path(path, buflen) ==
    IF path = NULL \/ path = <<"/">>
    THEN snprintf(SPIFFS_BASE_PATH \o <<"/">> \o IndexHtml, buflen)
    ELSE LET p   == IF Len(path) > 0 /\ path[1] = "/"
                    THEN Tail(path) ELSE path
             tmp == SegLoop(p, 1, <<>>)
         IN  snprintf(SPIFFS_BASE_PATH \o <<"/">>
                          \o (IF tmp # <<>> THEN tmp ELSE IndexHtml), buflen)

-----------------------------------------------------------------------------
(* parse_request_path *)

parse_request_path(req, pathbuflen) ==
    LET sp1 == StrChr(req, 1, " ")
    IN  IF sp1 = 0 THEN <<"/">>
        ELSE LET sp2 == StrChr(req, sp1 + 1, " ")
             IN  IF sp2 = 0 THEN <<"/">>
                 ELSE LET n   == sp2 - (sp1 + 1)
                          len == IF n >= pathbuflen THEN pathbuflen - 1 ELSE n
                      IN  SubSeq(req, sp1 + 1, sp1 + len)

-----------------------------------------------------------------------------
(* get_mime_type *)

UpperCase == <<"A", "B", "C", "D", "E", "F", "G", "H", "I", "J", "K", "L", "M", "N", "O", "P", "Q", "R", "S", "T", "U", "V", "W", "X", "Y", "Z">>

LowerCase == <<"a", "b", "c", "d", "e", "f", "g", "h", "i", "j", "k", "l", "m", "n", "o", "p", "q", "r", "s", "t", "u", "v", "w", "x", "y", "z">>

tolower(c) ==
    IF \E i \in 1..26 : UpperCase[i] = c
    THEN LowerCase[CHOOSE i \in 1..26 : UpperCase[i] = c]
    ELSE c

\* strcmp(a, b) == 0 in the place of strcasecmp
strcasecmp0_exact(a, b) == a = b

\* strcasecmp(a, b) == 0
strcasecmp0(a, b) ==
    Len(a) = Len(b) /\ \A i \in 1..Len(a) : tolower(a[i]) = tolower(b[i])

\* strrchr(s, c): the 1-based index of the last c, 0 for a null result
StrRChr(s, c) ==
    LET hits == {i \in 1..Len(s) : s[i] = c}
    IN  IF hits = {} THEN 0
        ELSE CHOOSE i \in hits : \A j \in hits : i >= j

MimeOctet == <<"a", "p", "p", "l", "i", "c", "a", "t", "i", "o", "n", "/", "o", "c", "t", "e", "t", "-", "s", "t", "r", "e", "a", "m">>

MimeHtml == <<"t", "e", "x", "t", "/", "h", "t", "m", "l", ";", " ", "c", "h", "a", "r", "s", "e", "t", "=", "u", "t", "f", "-", "8">>

MimeCss == <<"t", "e", "x", "t", "/", "c", "s", "s">>

MimeJs == <<"a", "p", "p", "l", "i", "c", "a", "t", "i", "o", "n", "/", "j", "a", "v", "a", "s", "c", "r", "i", "p", "t">>

MimeJson == <<"a", "p", "p", "l", "i", "c", "a", "t", "i", "o", "n", "/", "j", "s", "o", "n">>

MimePng == <<"i", "m", "a", "g", "e", "/", "p", "n", "g">>

MimeJpeg == <<"i", "m", "a", "g", "e", "/", "j", "p", "e", "g">>

MimeGif == <<"i", "m", "a", "g", "e", "/", "g", "i", "f">>

MimeSvg == <<"i", "m", "a", "g", "e", "/", "s", "v", "g", "+", "x", "m", "l">>

MimeIco == <<"i", "m", "a", "g", "e", "/", "x", "-", "i", "c", "o", "n">>

MimeTxt == <<"t", "e", "x", "t", "/", "p", "l", "a", "i", "n", ";", " ", "c", "h", "a", "r", "s", "e", "t", "=", "u", "t", "f", "-", "8">>

\* the table of lines 39-50, in the order of the comparisons
MimeTable ==
    << <<(<<"h", "t", "m", "l">>), MimeHtml>>,
       <<(<<"h", "t", "m">>), MimeHtml>>,
       <<(<<"c", "s", "s">>), MimeCss>>,
       <<(<<"j", "s">>), MimeJs>>,
       <<(<<"j", "s", "o", "n">>), MimeJson>>,
       <<(<<"p", "n", "g">>), MimePng>>,
       <<(<<"j", "p", "g">>), MimeJpeg>>,
       <<(<<"j", "p", "e", "g">>), MimeJpeg>>,
       <<(<<"g", "i", "f">>), MimeGif>>,
       <<(<<"s", "v", "g">>), MimeSvg>>,
       <<(<<"i", "c", "o">>), MimeIco>>,
       <<(<<"t", "x", "t">>), MimeTxt>> >>

get_mime_type(path) ==
    LET dot == StrRChr(path, ".")
    IN  IF dot = 0 THEN MimeOctet
        ELSE LET ext  == SubSeq(path, dot + 1, Len(path))
                 rows == {i \in 1..Len(MimeTable) : strcasecmp0(ext, MimeTable[i][1])}
             IN  IF rows = {} THEN MimeOctet
                 ELSE MimeTable[CHOOSE i \in rows : \A j \in rows : i <= j][2]

-----------------------------------------------------------------------------
(* The response headers of send_file and send_404 *)

Digits == <<"0", "1", "2", "3", "4", "5", "6", "7", "8", "9">>

\* printf's %d / %ld of a number that is not negative
RECURSIVE Dec(_)
Dec(n) ==
    IF n < 10 THEN <<Digits[n + 1]>>
    ELSE Dec(n \div 10) \o <<Digits[(n % 10) + 1]>>

CRLF == <<"\r", "\n">>

ConnectionClose == <<"C", "o", "n", "n", "e", "c", "t", "i", "o", "n", ":", " ", "c", "l", "o", "s", "e", "\r", "\n">>

ContentType == <<"C", "o", "n", "t", "e", "n", "t", "-", "T", "y", "p", "e", ":", " ">>

ContentLength == <<"C", "o", "n", "t", "e", "n", "t", "-", "L", "e", "n", "g", "t", "h", ":", " ">>

\* sizeof(header) in send_file and in send_404
HeaderSize == 256

\* the text the format of lines 147-151 expands to
Header200(mime, size) ==
    <<"H", "T", "T", "P", "/", "1", ".", "1", " ", "2", "0", "0", " ", "O", "K", "\r", "\n">>
        \o ContentType \o mime \o CRLF
        \o ContentLength \o Dec(size) \o CRLF
        \o ConnectionClose \o CRLF

Body404 == <<"<", "h", "t", "m", "l", ">", "<", "b", "o", "d", "y", ">", "<", "h", "1", ">", "4", "0", "4", " ", "N", "o", "t", " ", "F", "o", "u", "n", "d", "<", "/", "h", "1", ">", "<", "/", "b", "o", "d", "y", ">", "<", "/", "h", "t", "m", "l", ">">>

\* the text the format of lines 114-118 expands to
Header404(body_len) ==
    <<"H", "T", "T", "P", "/", "1", ".", "1", " ", "4", "0", "4", " ", "N", "o", "t", " ", "F", "o", "u", "n", "d", "\r", "\n">>
        \o ContentType \o MimeHtml \o CRLF
        \o ContentLength \o Dec(body_len) \o CRLF
        \o ConnectionClose \o CRLF

-----------------------------------------------------------------------------
(* The collaborators: the filesystem, the clients, the transport *)

RECV_BUF_LEN == 1024

FILE_CHUNK == 1024

\* connections the model lets accept return
MaxConns == 2

\* body sends per connection the model lets return 0
MaxStalls == 1

\* the length of a small file
SmallLen == 3

\* a large file is this much longer than one chunk
ExtraLen == 2

CssPath == <<"/", "s", "p", "i", "f", "f", "s", "/", "s", "t", "y", "l", "e", ".", "C", "S", "S">>

\* a file of n bytes: a tag byte, then a running pattern
FileBytes(tag, n) == [k \in 1..n |-> IF k = 1 THEN tag ELSE Digits[(k % 10) + 1]]

\* index.html: absent (NULL) or small
IndexFiles == {NULL, FileBytes("i", SmallLen)}

\* style.CSS: absent (NULL), empty, or longer than one chunk
CssFiles == {NULL, FileBytes("c", 0), FileBytes("c", FILE_CHUNK + ExtraLen)}

FileSystems ==
    {[p \in {q \in {FALLBACK_PATH, CssPath} :
                (IF q = FALLBACK_PATH THEN i ELSE c) # NULL}
         |-> IF p = FALLBACK_PATH THEN i ELSE c] :
        i \in IndexFiles, c \in CssFiles}

NoFiles == [p \in {} |-> <<>>]

Fill(n) == [i \in 1..n |-> "a"]

ReqIndex == <<"G", "E", "T", " ", "/", "i", "n", "d", "e", "x", ".", "h", "t", "m", "l", " ", "H", "T", "T", "P", "/", "1", ".", "1", "\r", "\n", "H", "o", "s", "t", ":", " ", "e", "s", "p", "3", "2", "\r", "\n", "\r", "\n">>

\* a request line without a version, followed by a header
ReqNoVersion == <<"G", "E", "T", " ", "/", "x", "\r", "\n", "H", "o", "s", "t", ":", " ", "a", "\r", "\n", "\r", "\n">>

\* a request line without a space, followed by a header with two
ReqBare == <<"G", "E", "T", "\r", "\n", "U", "s", "e", "r", "-", "A", "g", "e", "n", "t", ":", " ", "c", "u", "r", "l", " ", "8", "\r", "\n", "\r", "\n">>

\* GET /aaa...a HTTP/1.1 with a target of n + 1 characters
ReqLong(n) ==
    <<"G", "E", "T", " ", "/">> \o Fill(n)
        \o <<" ", "H", "T", "T", "P", "/", "1", ".", "1", "\r", "\n", "\r", "\n">>

ReqRoot == <<"G", "E", "T", " ", "/", " ", "H", "T", "T", "P", "/", "1", ".", "1", "\r", "\n", "\r", "\n">>

ReqCss == <<"G", "E", "T", " ", "/", "s", "t", "y", "l", "e", ".", "C", "S", "S", " ", "H", "T", "T", "P", "/", "1", ".", "1", "\r", "\n", "\r", "\n">>

ReqMissing == <<"G", "E", "T", " ", "/", "m", "i", "s", "s", "i", "n", "g", "-", "p", "a", "g", "e", " ", "H", "T", "T", "P", "/", "1", ".", "1", "\r", "\n", "\r", "\n">>

\* a request without any space
ReqNoSpace == <<"G", "E", "T", "\r", "\n", "\r", "\n">>

\* what a client may deliver to the first recv
Requests == {ReqRoot, ReqCss, ReqMissing, ReqNoSpace}

\* what send(sock, data, n, 0) may return: failure, nothing, a part, all
SendResults(n) == {-1, 0, n \div 2, n}

\* the bytes of data a send returning s hands to the transport
Accepted(data, s) == IF s > 0 THEN SubSeq(data, 1, s) ELSE <<>>

-----------------------------------------------------------------------------
(* http_server_task, lines 208-261 *)

\* the values of earlier before a connection is remembered: nobody looks,
\* and none yet
Unobserved == << <<"off">> >>

NoneYet == <<>>

LocalsReset ==
    /\ r' = 0
    /\ recv_buf' = <<>>
    /\ req_path' = <<>>
    /\ safe_path' = <<>>
    /\ fullpath' = <<>>
    /\ isFallback' = FALSE
    /\ f' = NULL
    /\ fpos' = 0
    /\ filesize' = 0
    /\ buf' = <<>>
    /\ sent' = 0

CallsReset ==
    /\ response' = "none"
    /\ hdr_sent' = 0
    /\ failed' = {}
    /\ nsend' = 0
    /\ stalls' = 0
    /\ nrecv' = 0
    /\ opens' = <<>>

\* socket(), lines 210-217
task_socket ==
    /\ pc = "socket"
    /\ \/ listen_sock' = "open" /\ pc' = "bind"
       \/ listen_sock' = "none" /\ pc' = "deleted"
    /\ UNCHANGED <<accepted, client_sock, cvars, lvars, gvars, hvars, avars>>

\* bind(), lines 228-233
task_bind ==
    /\ pc = "bind"
    /\ \/ listen_sock' = "open" /\ pc' = "listen"
       \/ listen_sock' = "closed" /\ pc' = "deleted"
    /\ UNCHANGED <<accepted, client_sock, cvars, lvars, gvars, hvars, avars>>

\* listen(), lines 236-241
task_listen ==
    /\ pc = "listen"
    /\ \/ listen_sock' = "open" /\ pc' = "accept"
       \/ listen_sock' = "closed" /\ pc' = "deleted"
    /\ UNCHANGED <<accepted, client_sock, cvars, lvars, gvars, hvars, avars>>

\* accept() returns a connection and handle_client is entered, lines 248-253
accept_ok ==
    /\ pc = "accept"
    /\ accepted < MaxConns
    /\ accepted' = accepted + 1
    /\ client_sock' = accepted + 1
    /\ pc' = "recv"
    /\ delivered' = <<>>
    /\ LocalsReset
    /\ CallsReset
    /\ UNCHANGED <<listen_sock, fs, closes, shutdowns, hvars, nopen, earlier>>

\* accept() fails and the task gives up, as it does when bind or listen fail
accept_fail_exit ==
    /\ pc = "accept"
    /\ client_sock' = -1
    /\ listen_sock' = "closed"
    /\ pc' = "deleted"
    /\ delivered' = <<>>
    /\ LocalsReset
    /\ CallsReset
    /\ UNCHANGED <<accepted, fs, closes, shutdowns, hvars, nopen, earlier>>

\* accept() fails and the loop continues, lines 249-252. No connection is in
\* hand: the frame of the last handle_client is gone, and the bookkeeping of
\* its connection is dropped as it is when accept returns a connection.
accept_fail ==
    /\ pc = "accept"
    /\ client_sock' = -1
    /\ pc' = "accept"
    /\ delivered' = <<>>
    /\ LocalsReset
    /\ CallsReset
    /\ UNCHANGED <<listen_sock, accepted, fs, closes, shutdowns, hvars, nopen,
                   earlier>>

-----------------------------------------------------------------------------
(* handle_client, lines 177-205 *)

\* recv() is called again after it returned nothing
handle_client_recv_again ==
    /\ pc = "recv"
    /\ \E req \in Requests :
         \E n \in {-1, 0, Min(Len(req), RECV_BUF_LEN)} :
            /\ r' = n
            /\ recv_buf' = IF n > 0 THEN SubSeq(req, 1, n) ELSE <<>>
            /\ pc' = IF n > 0 THEN "resolve"
                     ELSE IF nrecv = 0 THEN "recv" ELSE "early_close"
    /\ nrecv' = nrecv + 1
    /\ UNCHANGED <<listen_sock, accepted, client_sock, cvars, gvars, hvars>>
    /\ UNCHANGED <<opens, nopen, earlier>>
    /\ UNCHANGED <<req_path, safe_path, fullpath, isFallback, f, fpos,
                   filesize, buf, sent>>

\* recv(), lines 178-191
handle_client_recv ==
    /\ pc = "recv"
    /\ \E req \in Requests :
         \E n \in {-1, 0, Min(Len(req), RECV_BUF_LEN)} :
            /\ r' = n
            /\ recv_buf' = IF n > 0 THEN SubSeq(req, 1, n) ELSE <<>>
            /\ pc' = IF n <= 0 THEN "early_close" ELSE "resolve"
    /\ nrecv' = nrecv + 1
    /\ UNCHANGED <<listen_sock, accepted, client_sock, cvars, gvars, hvars>>
    /\ UNCHANGED <<opens, nopen, earlier>>
    /\ UNCHANGED <<req_path, safe_path, fullpath, isFallback, f, fpos,
                   filesize, buf, sent>>

\* the early return without the close: the connection is left open
handle_client_early_close_noclose ==
    /\ pc = "early_close"
    /\ pc' = "accept"
    /\ UNCHANGED <<listen_sock, accepted, client_sock, cvars, lvars, gvars,
                   hvars, avars>>

\* close() and return after an empty or failed receive, lines 187-190
handle_client_early_close ==
    /\ pc = "early_close"
    /\ closes' = [closes EXCEPT ![client_sock] = @ + 1]
    /\ pc' = "accept"
    /\ UNCHANGED <<listen_sock, accepted, client_sock, fs, shutdowns,
                   delivered, lvars, gvars, hvars, avars>>

\* parse_request_path, sanitize_path and the call of send_file, lines 193-201
handle_client_resolve ==
    /\ pc = "resolve"
    /\ req_path' = parse_request_path(recv_buf, ReqPathSize)
    /\ safe_path' = sanitize_path(req_path', SafePathSize)
    /\ fullpath' = safe_path'
    /\ isFallback' = FALSE
    /\ pc' = "fopen"
    /\ UNCHANGED <<listen_sock, accepted, client_sock, cvars, gvars, hvars, avars>>
    /\ UNCHANGED <<r, recv_buf, f, fpos, filesize, buf, sent>>

\* shutdown(), line 203
handle_client_shutdown ==
    /\ pc = "shutdown"
    /\ shutdowns' = [shutdowns EXCEPT ![client_sock] = @ + 1]
    /\ pc' = "close"
    /\ UNCHANGED <<listen_sock, accepted, client_sock, fs, closes,
                   delivered, lvars, gvars, hvars, avars>>

\* the return after shutdown() without the close()
handle_client_close_leak ==
    /\ pc = "close"
    /\ pc' = "accept"
    /\ UNCHANGED <<listen_sock, accepted, client_sock, cvars, lvars, gvars,
                   hvars, avars>>

\* close() and return, lines 204-205. The first connection that was served
\* without a send reporting failure is remembered, unless nobody looks.
handle_client_close ==
    /\ pc = "close"
    /\ closes' = [closes EXCEPT ![client_sock] = @ + 1]
    /\ pc' = "accept"
    /\ earlier' = IF earlier = NoneYet /\ failed = {}
                  THEN <<recv_buf, delivered, <<hdr_sent>> >>
                  ELSE earlier
    /\ UNCHANGED <<listen_sock, accepted, client_sock, fs, shutdowns,
                   delivered, lvars, gvars, hvars>>
    /\ UNCHANGED <<nrecv, opens, nopen>>

-----------------------------------------------------------------------------
(* send_file, lines 124-174 *)

\* fopen() succeeds; the size is measured, lines 125, 139-142
send_file_open_ok ==
    /\ pc = "fopen"
    /\ fullpath \in DOMAIN fs
    /\ f' = fullpath
    /\ fpos' = 0
    /\ filesize' = Len(fs[fullpath])
    /\ pc' = "send_header"
    /\ opens' = Append(opens, <<fullpath, isFallback, TRUE>>)
    /\ nopen' = nopen + 1
    /\ UNCHANGED <<listen_sock, accepted, client_sock, cvars, gvars, hvars>>
    /\ UNCHANGED <<nrecv, earlier>>
    /\ UNCHANGED <<r, recv_buf, req_path, safe_path, fullpath, isFallback,
                   buf, sent>>

\* fopen() fails and send_file(sock, FALLBACK_PATH) is called whatever the
\* flag says, without setting it
send_file_open_retry_noflag ==
    /\ pc = "fopen"
    /\ fullpath \notin DOMAIN fs
    /\ ~isFallback
    /\ fullpath' = FALLBACK_PATH
    /\ isFallback' = FALSE
    /\ pc' = "fopen"
    /\ opens' = Append(opens, <<fullpath, isFallback, FALSE>>)
    /\ UNCHANGED <<listen_sock, accepted, client_sock, cvars, gvars, hvars>>
    /\ UNCHANGED <<nrecv, nopen, earlier>>
    /\ UNCHANGED <<r, recv_buf, req_path, safe_path, f, fpos, filesize,
                   buf, sent>>

\* fopen() fails on the requested path: send_file(sock, FALLBACK_PATH, true),
\* lines 126-131
send_file_open_retry ==
    /\ pc = "fopen"
    /\ fullpath \notin DOMAIN fs
    /\ ~isFallback
    /\ fullpath' = FALLBACK_PATH
    /\ isFallback' = TRUE
    /\ pc' = "fopen"
    /\ opens' = Append(opens, <<fullpath, isFallback, FALSE>>)
    /\ UNCHANGED <<listen_sock, accepted, client_sock, cvars, gvars, hvars>>
    /\ UNCHANGED <<nrecv, nopen, earlier>>
    /\ UNCHANGED <<r, recv_buf, req_path, safe_path, f, fpos, filesize,
                   buf, sent>>

\* fopen() fails on the fallback: send_404(sock), lines 132-135
send_file_open_404 ==
    /\ pc = "fopen"
    /\ fullpath \notin DOMAIN fs
    /\ isFallback
    /\ pc' = "send_404_header"
    /\ opens' = Append(opens, <<fullpath, isFallback, FALSE>>)
    /\ UNCHANGED <<listen_sock, accepted, client_sock, cvars, lvars, gvars,
                   hvars>>
    /\ UNCHANGED <<nrecv, nopen, earlier>>

\* the header is formatted and sent once; the result of send is dropped,
\* lines 144-152. The text is shorter than sizeof(header) for every MIME
\* type and size, so header_len bytes of it are offered.
send_file_header ==
    /\ pc = "send_header"
    /\ LET header     == snprintf(Header200(get_mime_type(fullpath), filesize),
                                  HeaderSize)
           header_len == Len(Header200(get_mime_type(fullpath), filesize))
       IN  \E s \in SendResults(header_len) :
              /\ delivered' = delivered \o Accepted(header, s)
              /\ hdr_sent' = Len(Accepted(header, s))
              /\ failed' = IF s < 0 THEN failed \cup {"header"} ELSE failed
    /\ response' = "200"
    /\ nsend' = nsend + 1
    /\ pc' = "fread"
    /\ UNCHANGED <<listen_sock, accepted, client_sock, fs, closes, shutdowns,
                   lvars, stalls, hvars, avars>>

\* fread() of the next chunk; at the end of the file fclose() and return,
\* lines 159, 173
send_file_fread ==
    /\ pc = "fread"
    /\ LET n == Min(FILE_CHUNK, Len(fs[f]) - fpos)
       IN  IF n > 0
           THEN /\ buf' = SubSeq(fs[f], fpos + 1, fpos + n)
                /\ fpos' = fpos + n
                /\ sent' = 0
                /\ f' = f
                /\ nopen' = nopen
                /\ pc' = "send_body"
           ELSE /\ f' = NULL
                /\ nopen' = nopen - 1
                /\ pc' = "shutdown"
                /\ UNCHANGED <<buf, fpos, sent>>
    /\ UNCHANGED <<listen_sock, accepted, client_sock, cvars, gvars, hvars>>
    /\ UNCHANGED <<nrecv, opens, earlier>>
    /\ UNCHANGED <<r, recv_buf, req_path, safe_path, fullpath, isFallback,
                   filesize>>

\* send(sock, buf, r - sent, 0): the offset into the chunk forgotten
send_file_body_progress_frombuf ==
    /\ pc = "send_body"
    /\ \E s \in SendResults(Len(buf) - sent) :
          /\ s > 0
          /\ delivered' = delivered \o SubSeq(buf, 1, s)
          /\ sent' = sent + s
          /\ pc' = IF sent + s < Len(buf) THEN "send_body" ELSE "fread"
    /\ nsend' = nsend + 1
    /\ UNCHANGED <<listen_sock, accepted, client_sock, fs, closes, shutdowns,
                   hvars, avars>>
    /\ UNCHANGED <<r, recv_buf, req_path, safe_path, fullpath, isFallback, f,
                   fpos, filesize, buf>>
    /\ UNCHANGED <<response, hdr_sent, failed, stalls>>

\* send() of the rest of the chunk accepts s > 0 bytes, lines 163-171
send_file_body_progress ==
    /\ pc = "send_body"
    /\ \E s \in SendResults(Len(buf) - sent) :
          /\ s > 0
          /\ delivered' = delivered \o SubSeq(buf, sent + 1, sent + s)
          /\ sent' = sent + s
          /\ pc' = IF sent + s < Len(buf) THEN "send_body" ELSE "fread"
    /\ nsend' = nsend + 1
    /\ UNCHANGED <<listen_sock, accepted, client_sock, fs, closes, shutdowns,
                   hvars, avars>>
    /\ UNCHANGED <<r, recv_buf, req_path, safe_path, fullpath, isFallback, f,
                   fpos, filesize, buf>>
    /\ UNCHANGED <<response, hdr_sent, failed, stalls>>

\* send() of the rest of the chunk returns 0: sent += 0, and the loop of
\* line 163 runs again
send_file_body_stall ==
    /\ pc = "send_body"
    /\ 0 \in SendResults(Len(buf) - sent)
    /\ stalls < MaxStalls
    /\ stalls' = stalls + 1
    /\ nsend' = nsend + 1
    /\ pc' = "send_body"
    /\ UNCHANGED <<listen_sock, accepted, client_sock, cvars, lvars, hvars, avars>>
    /\ UNCHANGED <<response, hdr_sent, failed>>

\* send() of the rest of the chunk fails and the loop simply tries again
send_file_body_fail_retry ==
    /\ pc = "send_body"
    /\ -1 \in SendResults(Len(buf) - sent)
    /\ failed' = failed \cup {"body"}
    /\ nsend' = nsend + 1
    /\ pc' = "send_body"
    /\ UNCHANGED <<listen_sock, accepted, client_sock, cvars, lvars, hvars, avars>>
    /\ UNCHANGED <<response, hdr_sent, stalls>>

\* send() of the rest of the chunk fails: return without the fclose()
send_file_body_fail_nofclose ==
    /\ pc = "send_body"
    /\ -1 \in SendResults(Len(buf) - sent)
    /\ failed' = failed \cup {"body"}
    /\ nsend' = nsend + 1
    /\ pc' = "shutdown"
    /\ UNCHANGED <<listen_sock, accepted, client_sock, cvars, hvars, avars>>
    /\ UNCHANGED <<r, recv_buf, req_path, safe_path, fullpath, isFallback, f,
                   fpos, filesize, buf, sent>>
    /\ UNCHANGED <<response, hdr_sent, stalls>>

\* send() of the rest of the chunk fails: fclose() and return, lines 165-169
send_file_body_fail ==
    /\ pc = "send_body"
    /\ -1 \in SendResults(Len(buf) - sent)
    /\ failed' = failed \cup {"body"}
    /\ nsend' = nsend + 1
    /\ f' = NULL
    /\ nopen' = nopen - 1
    /\ pc' = "shutdown"
    /\ UNCHANGED <<listen_sock, accepted, client_sock, cvars, hvars>>
    /\ UNCHANGED <<nrecv, opens, earlier>>
    /\ UNCHANGED <<r, recv_buf, req_path, safe_path, fullpath, isFallback,
                   fpos, filesize, buf, sent>>
    /\ UNCHANGED <<response, hdr_sent, stalls>>

-----------------------------------------------------------------------------
(* send_404, lines 109-121 *)

\* the header is formatted and sent once; the result of send is dropped,
\* lines 110-119
send_404_header ==
    /\ pc = "send_404_header"
    /\ LET body_len == Len(Body404)
           header   == snprintf(Header404(body_len), HeaderSize)
           n        == Len(Header404(body_len))
       IN  \E s \in SendResults(n) :
              /\ delivered' = delivered \o Accepted(header, s)
              /\ hdr_sent' = Len(Accepted(header, s))
              /\ failed' = IF s < 0 THEN failed \cup {"404"} ELSE failed
    /\ response' = "404"
    /\ nsend' = nsend + 1
    /\ pc' = "send_404_body"
    /\ UNCHANGED <<listen_sock, accepted, client_sock, fs, closes, shutdowns,
                   lvars, stalls, hvars, avars>>

\* the body is sent once; the result of send is dropped, line 120
send_404_body ==
    /\ pc = "send_404_body"
    /\ \E s \in SendResults(Len(Body404)) :
          /\ delivered' = delivered \o Accepted(Body404, s)
          /\ failed' = IF s < 0 THEN failed \cup {"404"} ELSE failed
    /\ nsend' = nsend + 1
    /\ pc' = "shutdown"
    /\ UNCHANGED <<listen_sock, accepted, client_sock, fs, closes, shutdowns,
                   lvars, hvars, avars>>
    /\ UNCHANGED <<response, hdr_sent, stalls>>

-----------------------------------------------------------------------------
(* The server *)

HarnessIdle ==
    /\ arg = <<>>
    /\ res = <<>>
    /\ applied = "no"

ServerStart ==
    /\ pc = "socket"
    /\ listen_sock = "none"
    /\ accepted = 0
    /\ client_sock = 0
    /\ closes = [c \in 1..MaxConns |-> 0]
    /\ shutdowns = [c \in 1..MaxConns |-> 0]
    /\ delivered = <<>>
    /\ r = 0
    /\ recv_buf = <<>>
    /\ req_path = <<>>
    /\ safe_path = <<>>
    /\ fullpath = <<>>
    /\ isFallback = FALSE
    /\ f = NULL
    /\ fpos = 0
    /\ filesize = 0
    /\ buf = <<>>
    /\ sent = 0
    /\ response = "none"
    /\ hdr_sent = 0
    /\ failed = {}
    /\ nsend = 0
    /\ stalls = 0
    /\ nrecv = 0
    /\ opens = <<>>
    /\ nopen = 0

Init ==
    /\ HarnessIdle
    /\ ServerStart
    /\ fs \in FileSystems
    /\ earlier = Unobserved

Next ==
    \/ task_socket
    \/ task_bind
    \/ task_listen
    \/ accept_ok
    \/ accept_fail
    \/ handle_client_recv
    \/ handle_client_early_close
    \/ handle_client_resolve
    \/ send_file_open_ok
    \/ send_file_open_retry
    \/ send_file_open_404
    \/ send_file_header
    \/ send_file_fread
    \/ send_file_body_progress
    \/ send_file_body_stall
    \/ send_file_body_fail
    \/ send_404_header
    \/ send_404_body
    \/ handle_client_shutdown
    \/ handle_client_close

Spec == Init /\ [][Next]_vars

\* the server with the first connection served remembered
InitPair ==
    /\ HarnessIdle
    /\ ServerStart
    /\ fs \in FileSystems
    /\ earlier = NoneYet

SpecPair == InitPair /\ [][Next]_vars

-----------------------------------------------------------------------------
(* Inputs of the function harnesses *)

\* longest tail appended to the filler of a Request Path
MaxTail == 4

\* filler lengths run up to ShortFill and over the last NearSpan lengths
\* below the accumulator size
ShortFill == 1

NearSpan == 14

PathAlphabet == {"/", ".", "a"}

RECURSIVE Strings(_, _)
Strings(alphabet, n) ==
    IF n = 0 THEN {<<>>}
    ELSE LET shorter == Strings(alphabet, n - 1)
         IN  shorter \cup {Append(s, c) : s \in shorter, c \in alphabet}

FillLens == (0..ShortFill) \cup ((TmpSize - NearSpan)..TmpSize)

\* the Request Paths the specification names
PathDotDotX == <<"/", ".", ".", "/", ".", ".", "/", ".", ".", "/", "x">>

PathEtcPasswd == <<"/", ".", ".", "/", ".", ".", "/", "e", "t", "c", "/", "p", "a", "s", "s", "w", "d">>

PathABDotC == <<"/", "a", "/", "/", "b", "/", ".", "/", "c">>

\* nothing but slashes and ".." segments
PathDotDotOnly == <<"/", ".", ".", "/", "/", ".", ".", "/">>

\* the longest run of "../" among the Request Paths
MaxRun == 6

\* "../" k times over
DotDotRun(k) == [i \in 1..(3 * k) |-> IF i % 3 = 0 THEN "/" ELSE "."]

\* Request Paths: the named ones, the runs of "../", and an optional leading
\* slash, a filler, a tail; no longer than parse_request_path can write
\* (ReqPathSize - 1 characters)
SanInputs ==
    {NULL, PathDotDotX, PathEtcPasswd, PathABDotC, PathDotDotOnly} \cup
    {DotDotRun(k) : k \in 1..MaxRun} \cup
    {s \in {h \o Fill(n) \o t : h \in {<<>>, <<"/">>}, n \in FillLens,
                                t \in Strings(PathAlphabet, MaxTail)} :
        Len(s) <= ReqPathSize - 1}

-----------------------------------------------------------------------------
(* The harness of sanitize_path *)

InitSan ==
    /\ arg \in SanInputs
    /\ res = <<>>
    /\ applied = "no"
    /\ ServerStart
    /\ fs = NoFiles
    /\ earlier = Unobserved

CallSanitize ==
    /\ applied = "no"
    /\ res' = sanitize_path(arg, SafePathSize)
    /\ applied' = "sanitize_path"
    /\ arg' = arg
    /\ UNCHANGED svars

NextSan == CallSanitize

SpecSan == InitSan /\ [][NextSan]_vars

-----------------------------------------------------------------------------
(* The harness of parse_request_path *)

\* longest generated Raw Request
MaxReq == 5

\* how far the long request targets run past the path buffer
OverSpan == 2

ParseInputs ==
    {ReqIndex, ReqNoVersion, ReqBare}
        \cup {ReqLong(n) : n \in (ReqPathSize - 3)..(ReqPathSize + OverSpan)}
        \cup Strings({"G", " ", "/", "\n"}, MaxReq)

InitParse ==
    /\ arg \in ParseInputs
    /\ res = <<>>
    /\ applied = "no"
    /\ ServerStart
    /\ fs = NoFiles
    /\ earlier = Unobserved

CallParse ==
    /\ applied = "no"
    /\ res' = parse_request_path(arg, ReqPathSize)
    /\ applied' = "parse_request_path"
    /\ arg' = arg
    /\ UNCHANGED svars

NextParse == CallParse

SpecParse == InitParse /\ [][NextParse]_vars

-----------------------------------------------------------------------------
(* The harness of get_mime_type *)

toupper(c) ==
    IF \E i \in 1..26 : LowerCase[i] = c
    THEN UpperCase[CHOOSE i \in 1..26 : LowerCase[i] = c]
    ELSE c

\* s with each letter in either case
RECURSIVE CaseVariants(_)
CaseVariants(s) ==
    IF s = <<>> THEN {<<>>}
    ELSE {<<c>> \o t : c \in {s[1], toupper(s[1])}, t \in CaseVariants(Tail(s))}

PathNoExt == <<"n", "o", "e", "x", "t">>

PathStyleCss == <<"s", "t", "y", "l", "e", ".", "C", "S", "S">>

\* what precedes the last dot: a plain name, a directory with a dot in its
\* name, a name that already has an extension, a bare directory
MimeStems ==
    {<<"/", "s", "p", "i", "f", "f", "s", "/", "s", "t", "y", "l", "e">>,
     <<"/", "s", "p", "i", "f", "f", "s", "/", "v", "1", ".", "2", "/", "a", "p", "p">>,
     <<"/", "s", "p", "i", "f", "f", "s", "/", "i", "n", "d", "e", "x", ".", "h", "t", "m", "l">>,
     <<"/", "s", "p", "i", "f", "f", "s", "/">>}

\* extensions of no table entry: empty, a prefix or an extension of an
\* entry, an entry followed by a further path segment
OtherExts ==
    {<<>>, <<"h">>, <<"h", "t", "m", "l", "x">>, <<"c", "s">>, <<"j", "s", "o">>, <<"m", "d">>, <<"b", "i", "n">>,
     <<"c", "s", "s", "/", "r", "e", "a", "d", "m", "e">>}

MimeExts ==
    UNION {CaseVariants(MimeTable[i][1]) : i \in 1..Len(MimeTable)}
        \cup OtherExts

MimeInputs ==
    {PathNoExt, PathStyleCss} \cup MimeStems
        \cup {stem \o <<".">> \o e : stem \in MimeStems, e \in MimeExts}

InitMime ==
    /\ arg \in MimeInputs
    /\ res = <<>>
    /\ applied = "no"
    /\ ServerStart
    /\ fs = NoFiles
    /\ earlier = Unobserved

CallMime ==
    /\ applied = "no"
    /\ res' = get_mime_type(arg)
    /\ applied' = "get_mime_type"
    /\ arg' = arg
    /\ UNCHANGED svars

NextMime == CallMime

SpecMime == InitMime /\ [][NextMime]_vars

-----------------------------------------------------------------------------
(* Vocabulary of the properties *)

StartsWith(s, prefix) ==
    Len(s) >= Len(prefix) /\ SubSeq(s, 1, Len(prefix)) = prefix

\* s, split on "/", has a segment that is exactly ".."
HasDotDotSegment(s) ==
    \E i \in 1..(Len(s) - 1) :
        /\ s[i] = "." /\ s[i + 1] = "."
        /\ (i = 1 \/ s[i - 1] = "/")
        /\ (i + 1 = Len(s) \/ s[i + 2] = "/")

RootSlash == SPIFFS_BASE_PATH \o <<"/">>

Sanitized == applied = "sanitize_path"

-----------------------------------------------------------------------------
(* C1: traversal safety. Every sanitized path starts with the root prefix  *)
(* "/spiffs/" and, split on "/", has no segment that is exactly "..",      *)
(* also when snprintf cuts the output to the destination buffer.           *)
C1_TraversalSafe ==
    Sanitized => StartsWith(res, RootSlash) /\ ~HasDotDotSegment(res)

-----------------------------------------------------------------------------
(* C2: a Request Path whose leading segments are ".." sanitizes to the     *)
(* index document: "/../../../x" and "/../../etc/passwd" both give         *)
(* "/spiffs/index.html".                                                   *)
C2_LeadingDotDotGivesIndex ==
    Sanitized /\ arg \in {PathDotDotX, PathEtcPasswd} => res = FALLBACK_PATH

(* C2 as amended: the leading ".." segments are dropped and the real       *)
(* segments after them are kept: "/../../../x" gives "/spiffs/x",          *)
(* "/../../etc/passwd" gives "/spiffs/etc/passwd", and a Request Path      *)
(* "/.." followed by q (empty, or starting with a slash) sanitizes to what *)
(* q alone sanitizes to.                                                   *)
C2_LeadingDotDotDropped ==
    Sanitized =>
        /\ arg = PathDotDotX => res = RootSlash \o <<"x">>
        /\ arg = PathEtcPasswd =>
               res = RootSlash \o <<"e", "t", "c", "/", "p", "a", "s", "s", "w", "d">>
        /\ (arg # NULL /\ StartsWith(arg, <<"/", ".", ".">>)
               /\ (Len(arg) = 3 \/ arg[4] = "/")) =>
               res = sanitize_path(SubSeq(arg, 4, Len(arg)), SafePathSize)

C2_Witness ==
    Sanitized /\ arg = PathDotDotX /\ res = RootSlash \o <<"x">>

-----------------------------------------------------------------------------
(* Vocabulary of the server properties *)

Conns == 1..MaxConns

\* the positions inside handle_client
Handling ==
    pc \in {"recv", "early_close", "resolve", "fopen", "send_header", "fread",
            "send_body", "send_404_header", "send_404_body", "shutdown",
            "close"}

\* the accept loop has been entered
Listening == pc = "accept" \/ Handling

\* handle_client has returned from the latest connection
Returned == pc = "accept" /\ client_sock > 0

\* send_file has returned to handle_client on the latest connection
SendFileReturned == pc \in {"shutdown", "close"} \/ (Returned /\ r > 0)

\* the bytes the transport accepted after those of the header
BodyDelivered == SubSeq(delivered, hdr_sent + 1, Len(delivered))

IsPrefix(s, t) == Len(s) <= Len(t) /\ SubSeq(t, 1, Len(s)) = s

-----------------------------------------------------------------------------
(* C3: every invocation of handle_client closes its connection exactly     *)
(* once, on every exit path: no connection is closed twice, none is closed *)
(* before handle_client leaves, and once handle_client has returned (after *)
(* an empty receive, a full response, a fallback, a 404 or an aborted      *)
(* body) the connection has been closed once.                              *)
C3_ClosedExactlyOnce ==
    /\ \A c \in Conns : closes[c] <= 1
    /\ \A c \in Conns : c < accepted => closes[c] = 1
    /\ \A c \in Conns : c > accepted => closes[c] = 0
    /\ Handling => closes[accepted] = 0
    /\ (pc = "accept" /\ accepted > 0) => closes[accepted] = 1

C3_Witness ==
    /\ pc = "accept"
    /\ accepted = 2
    /\ closes[1] = 1 /\ closes[2] = 1
    /\ r <= 0

-----------------------------------------------------------------------------
(* C4: SPA fallback. When the sanitized path cannot be opened but          *)
(* /spiffs/index.html can, and no send reports failure, the connection has *)
(* received, once send_file returns, a 200 header with Content-Type        *)
(* text/html; charset=utf-8 followed by exactly the bytes of index.html,   *)
(* and no 404. (Stated for the header sends that accept at least one byte.)*)
C4_FallbackServesIndex ==
    (/\ SendFileReturned
     /\ safe_path \notin DOMAIN fs
     /\ FALLBACK_PATH \in DOMAIN fs
     /\ failed = {}
     /\ hdr_sent > 0)
    => /\ response = "200"
       /\ delivered = Header200(MimeHtml, Len(fs[FALLBACK_PATH]))
                          \o fs[FALLBACK_PATH]

-----------------------------------------------------------------------------
(* C5: a 404 is sent if and only if both the sanitized path and the        *)
(* fallback path fail to open; then, for every transport behaviour that    *)
(* reports no failure (sends that accept fewer bytes than offered          *)
(* included), the connection has received the 404 header, with the body's  *)
(* length as Content-Length, followed by the whole literal body. (Stated   *)
(* for the sends that accept at least one byte each.)                      *)
C5_Complete404 ==
    SendFileReturned
    => /\ response = "404"
          <=> (safe_path \notin DOMAIN fs /\ FALLBACK_PATH \notin DOMAIN fs)
       /\ (response = "404" /\ failed = {} /\ 0 < hdr_sent
              /\ hdr_sent < Len(delivered))
          => delivered = Header404(Len(Body404)) \o Body404

-----------------------------------------------------------------------------
(* C6: chunked streaming integrity. Whatever parts the body sends accept,  *)
(* the body bytes the transport has accepted are at every moment a prefix  *)
(* of the file; when send_file returns without a failed body send they are *)
(* the whole file, in order, their number is the measured size, and that   *)
(* size is the Content-Length the header declares.                         *)
C6_BodyIsTheFile ==
    response = "200"
    => /\ IsPrefix(BodyDelivered, fs[fullpath])
       /\ (SendFileReturned /\ "body" \notin failed)
          => /\ BodyDelivered = fs[fullpath]
             /\ Len(BodyDelivered) = filesize
       /\ hdr_sent > 0
          => IsPrefix(SubSeq(delivered, 1, hdr_sent),
                      Header200(get_mime_type(fullpath), Len(fs[fullpath])))

\* a file of more than one chunk, sent whole with partial sends on the way
C6_Witness ==
    /\ pc = "shutdown"
    /\ response = "200"
    /\ failed = {}
    /\ stalls = 0
    /\ filesize > FILE_CHUNK
    /\ nsend > 4
    /\ BodyDelivered = fs[fullpath]

-----------------------------------------------------------------------------
(* C7: parse_request_path returns the text between the first and the       *)
(* second space of the request's FIRST LINE (cut to the path buffer), and  *)
(* "/" whenever the first line holds fewer than two spaces, also when      *)
(* later lines hold spaces.                                                *)

\* the first line of a request: what precedes its first line feed
FirstLine(req) ==
    LET nl == StrChr(req, 1, "\n")
    IN  IF nl = 0 THEN req ELSE SubSeq(req, 1, nl - 1)

TargetOfFirstLine(req) ==
    LET line == FirstLine(req)
        sp1  == StrChr(line, 1, " ")
        sp2  == IF sp1 = 0 THEN 0 ELSE StrChr(line, sp1 + 1, " ")
    IN  IF sp1 = 0 \/ sp2 = 0 THEN <<"/">>
        ELSE SubSeq(line, sp1 + 1, Min(sp2 - 1, sp1 + ReqPathSize - 1))

Parsed == applied = "parse_request_path"

C7_TargetOfFirstLine == Parsed => res = TargetOfFirstLine(arg)

-----------------------------------------------------------------------------
(* C8: strict serial service. At most one accepted connection is open at   *)
(* any time; the connection handle_client works on is the one accept       *)
(* returned last, and every connection accepted before it has been closed  *)
(* before any receive, open or send of it happens.                         *)
C8_SerialService ==
    /\ Cardinality({c \in Conns : c <= accepted /\ closes[c] = 0}) <= 1
    /\ Handling => /\ client_sock = accepted
                   /\ \A c \in Conns : c < client_sock => closes[c] >= 1

C8_Witness ==
    /\ pc = "send_body"
    /\ client_sock = 2
    /\ closes[1] = 1
    /\ closes[2] = 0

-----------------------------------------------------------------------------
FairSpec == Spec /\ WF_vars(Next)

-----------------------------------------------------------------------------
(* C10: abort on write failure. Once a body send has reported failure the  *)
(* file is closed, no further send and no further read happens on that     *)
(* connection, and handle_client goes on to shut the connection down and   *)
(* close it.                                                               *)
BodyAborted == "body" \in failed

C10_AbortOnWriteFailure ==
    /\ [](BodyAborted => f = NULL /\ pc \in {"shutdown", "close", "accept"})
    /\ [][(BodyAborted /\ BodyAborted')
            => /\ nsend' = nsend
               /\ delivered' = delivered
               /\ fpos' = fpos /\ buf' = buf /\ sent' = sent]_vars
    /\ []((BodyAborted /\ pc = "close") => shutdowns[client_sock] = 1)
    /\ []((BodyAborted /\ pc = "accept")
            => shutdowns[client_sock] = 1 /\ closes[client_sock] = 1)

C10_Witness ==
    /\ BodyAborted
    /\ pc = "accept"
    /\ sent < Len(buf)
    /\ shutdowns[client_sock] = 1
    /\ closes[client_sock] = 1

-----------------------------------------------------------------------------
(* C11: handle_client makes exactly one receive per connection: never a    *)
(* second one, and one has been made whenever handle_client is past the    *)
(* recv call or has returned. When that receive yields zero or fewer bytes *)
(* the only thing left is the close: nothing is parsed, no file is opened, *)
(* no send is called and no byte reaches the connection, and the           *)
(* connection is closed when handle_client returns.                        *)
C11_OneReceive ==
    /\ nrecv <= 1
    /\ (Handling /\ pc # "recv") => nrecv = 1
    /\ Returned => nrecv = 1
    /\ (Handling /\ pc # "recv" /\ r <= 0) => pc = "early_close"
    /\ ((pc = "early_close" \/ Returned) /\ r <= 0)
       => /\ req_path = <<>> /\ safe_path = <<>>
          /\ opens = <<>>
          /\ nsend = 0 /\ delivered = <<>>
    /\ (Returned /\ r <= 0) => closes[client_sock] = 1

\* a connection whose receive failed, closed
C11_Witness ==
    /\ Returned
    /\ r < 0
    /\ nrecv = 1
    /\ closes[client_sock] = 1
    /\ delivered = <<>>

-----------------------------------------------------------------------------
(* C12: determinism of responses. When a connection has been served with   *)
(* no send reporting failure, and an earlier connection that delivered the *)
(* same request bytes was served, against the same filesystem, with no     *)
(* send reporting failure either, the two connections have received the    *)
(* same bytes. (Stated for the header sends that accept at least one       *)
(* byte.)                                                                  *)
Remembered == Len(earlier) = 3

C12_SameRequestSameResponse ==
    (/\ Returned /\ r > 0
     /\ failed = {}
     /\ Remembered
     /\ earlier[1] = recv_buf
     /\ hdr_sent > 0 /\ earlier[3][1] > 0)
    => delivered = earlier[2]

-----------------------------------------------------------------------------
(* Vocabulary of the segment properties *)

DotDot == <<".", ".">>

\* the segments of s: the texts between its slashes, in order. Segment k
\* runs from after slash k - 1 (or the start) to before slash k (or the end).
Split(s) ==
    LET slashes == {i \in 1..Len(s) : s[i] = "/"}
        nth(k)  == CHOOSE i \in slashes :
                       Cardinality({j \in slashes : j < i}) = k - 1
        from(k) == IF k = 1 THEN 1 ELSE nth(k - 1) + 1
        to(k)   == IF k = Cardinality(slashes) + 1 THEN Len(s) ELSE nth(k) - 1
    IN  [k \in 1..(Cardinality(slashes) + 1) |-> SubSeq(s, from(k), to(k))]

IsKept(g) == g # <<>> /\ g # DotDot

\* the segments of a Request Path that are non-empty and not ".."
Kept(path) == SelectSeq(Split(path), IsKept)

\* the first n segments of segs joined by single slashes
RECURSIVE Join(_, _)
Join(segs, n) ==
    IF n = 0 THEN <<>>
    ELSE IF n = 1 THEN segs[1]
    ELSE Join(segs, n - 1) \o <<"/">> \o segs[n]

-----------------------------------------------------------------------------
(* C13: index default. sanitize_path returns "/spiffs/index.html" when the *)
(* Request Path is null, exactly "/", the empty string, or consists only   *)
(* of slashes and ".." segments.                                           *)
OnlySlashesAndDotDot(path) ==
    LET segs == Split(path)
    IN  \A i \in 1..Len(segs) : segs[i] \in {<<>>, DotDot}

C13_IndexDefault ==
    (Sanitized /\ (arg = NULL \/ OnlySlashesAndDotDot(arg)))
    => res = FALLBACK_PATH

C13_Witness ==
    Sanitized /\ arg = PathDotDotOnly /\ res = FALLBACK_PATH

-----------------------------------------------------------------------------
(* C14: segment filtering. For a Request Path whose kept segments fit the  *)
(* buffers, the sanitized path is the root followed by exactly the         *)
(* segments of the input that are non-empty and not "..", in their         *)
(* original order, joined by single slashes (the index document when there *)
(* is none, as C13 says); it never contains "//"; and a "." segment is     *)
(* kept as an ordinary name: "/a//b/./c" gives "/spiffs/a/b/./c".          *)
JoinAll(segs) == Join(segs, Len(segs))

\* the kept segments, joined, fit the accumulator and the output buffer
Fits(path) == Len(RootSlash) + Len(JoinAll(Kept(path))) <= SafePathSize - 1

HasDoubleSlash(s) == \E i \in 1..(Len(s) - 1) : s[i] = "/" /\ s[i + 1] = "/"

C14_SegmentFiltering ==
    (Sanitized /\ arg # NULL /\ Fits(arg))
    => /\ res = RootSlash \o (IF Kept(arg) = <<>> THEN IndexHtml
                               ELSE JoinAll(Kept(arg)))
       /\ ~HasDoubleSlash(res)
       /\ arg = PathABDotC
          => res = RootSlash \o <<"a", "/", "b", "/", ".", "/", "c">>

C14_Witness ==
    /\ Sanitized
    /\ arg = PathABDotC
    /\ Kept(arg) = << <<"a">>, <<"b">>, <<".">>, <<"c">> >>
    /\ res = RootSlash \o <<"a", "/", "b", "/", ".", "/", "c">>

-----------------------------------------------------------------------------
(* C15: get_mime_type classifies by the text after the last "." of the     *)
(* path, compared case-insensitively against the fixed table (html and htm *)
(* give text/html; charset=utf-8, css text/css, js                         *)
(* application/javascript, json application/json, png image/png, jpg and   *)
(* jpeg image/jpeg, gif image/gif, svg image/svg+xml, ico image/x-icon,    *)
(* txt text/plain; charset=utf-8) and returns application/octet-stream     *)
(* when the path has no "." or the extension matches no entry: "style.CSS" *)
(* gives text/css and "noext" the generic binary type.                     *)
HasDot(path) == \E i \in 1..Len(path) : path[i] = "."

\* the text after the last "." of a path that has one
Extension(path) ==
    LET last == CHOOSE i \in 1..Len(path) :
                    path[i] = "." /\ \A j \in (i + 1)..Len(path) : path[j] # "."
    IN  SubSeq(path, last + 1, Len(path))

Lowered(s) == [i \in 1..Len(s) |-> tolower(s[i])]

\* the type the table gives to an extension written in lower case
TypeOfExtension(e) ==
    IF e \in {<<"h", "t", "m", "l">>, <<"h", "t", "m">>} THEN MimeHtml
    ELSE IF e = <<"c", "s", "s">> THEN MimeCss
    ELSE IF e = <<"j", "s">> THEN MimeJs
    ELSE IF e = <<"j", "s", "o", "n">> THEN MimeJson
    ELSE IF e = <<"p", "n", "g">> THEN MimePng
    ELSE IF e \in {<<"j", "p", "g">>, <<"j", "p", "e", "g">>} THEN MimeJpeg
    ELSE IF e = <<"g", "i", "f">> THEN MimeGif
    ELSE IF e = <<"s", "v", "g">> THEN MimeSvg
    ELSE IF e = <<"i", "c", "o">> THEN MimeIco
    ELSE IF e = <<"t", "x", "t">> THEN MimeTxt
    ELSE MimeOctet

MimeResolved == applied = "get_mime_type"

C15_MimeByExtension ==
    MimeResolved
    => /\ res = IF HasDot(arg) THEN TypeOfExtension(Lowered(Extension(arg)))
                ELSE MimeOctet
       /\ arg = PathStyleCss => res = MimeCss
       /\ arg = PathNoExt => res = MimeOctet

C15_Witness ==
    MimeResolved /\ arg = PathStyleCss /\ res = MimeCss

-----------------------------------------------------------------------------
(* C16: defined truncation. For every Request Path of up to 255            *)
(* characters, the 256-byte accumulator and the 256-byte output buffer,    *)
(* the sanitized path is the root followed by a prefix of the list of kept *)
(* segments, each segment whole and joined by single slashes (the index    *)
(* document when the prefix is empty): the output never ends with a        *)
(* partial segment of the request.                                         *)
C16_WholeSegments ==
    (Sanitized /\ arg # NULL)
    => LET kept == Kept(arg)
       IN  \E n \in 0..Len(kept) :
              res = RootSlash \o (IF n = 0 THEN IndexHtml ELSE Join(kept, n))

-----------------------------------------------------------------------------
(* C17: bounded fallback retry. For one request send_file makes at most    *)
(* two open attempts: the first on the sanitized path with the fallback    *)
(* flag clear; the second only after the first failed, always on           *)
(* "/spiffs/index.html" and with the flag set. An open that succeeded, or  *)
(* that failed with the flag set, is the last one, also when the requested *)
(* path itself is "/spiffs/index.html"; after a failed open with the flag  *)
(* set the 404 is what follows.                                            *)
C17_BoundedRetry ==
    /\ Len(opens) <= 2
    /\ Len(opens) >= 1 => opens[1][1] = safe_path /\ ~opens[1][2]
    /\ Len(opens) = 2
       => /\ ~opens[1][3]
          /\ opens[2][1] = FALLBACK_PATH
          /\ opens[2][2]
    /\ \A i \in 1..Len(opens) :
          (opens[i][3] \/ opens[i][2]) => i = Len(opens)
    /\ (Len(opens) > 0 /\ opens[Len(opens)][2] /\ ~opens[Len(opens)][3])
       => \/ pc \in {"send_404_header", "send_404_body"}
          \/ response = "404"
    /\ SendFileReturned => Len(opens) >= 1

\* index.html requested and missing: two failed opens of it, then the 404
C17_Witness ==
    /\ pc = "shutdown"
    /\ response = "404"
    /\ opens = << <<FALLBACK_PATH, FALSE, FALSE>>,
                  <<FALLBACK_PATH, TRUE, FALSE>> >>

-----------------------------------------------------------------------------
(* C18: whenever a body byte of a 200 response has been accepted by the    *)
(* transport, the complete response header (status line, Content-Type,     *)
(* Content-Length, "Connection: close", blank line) was accepted before    *)
(* it, whatever the transport does: also when the header send accepts only *)
(* a part of the header or reports failure.                                *)
C18_HeaderBeforeBody ==
    (response = "200" /\ Len(delivered) > hdr_sent)
    => SubSeq(delivered, 1, hdr_sent)
           = Header200(get_mime_type(fullpath), filesize)

-----------------------------------------------------------------------------
(* C19: no file handle leaks across requests. At most one file is open at  *)
(* any moment, and only while send_file streams it; whenever handle_client *)
(* has returned (after an empty receive, a served file, a fallback, a 404  *)
(* or an abort on a failed send) and whenever the task waits in accept, no *)
(* file is open, so the number of open files does not grow with the        *)
(* number of connections served.                                           *)
Streaming == pc \in {"send_header", "fread", "send_body"}

C19_NoFileLeak ==
    /\ nopen \in {0, 1}
    /\ nopen = 1 <=> Streaming
    /\ nopen = 1 <=> f # NULL
    /\ pc \in {"accept", "recv", "shutdown", "close"} => nopen = 0

\* the second connection, served from the fallback document and aborted on a
\* failed body send, has returned: nothing is left open
C19_Witness ==
    /\ Returned
    /\ accepted = 2
    /\ "body" \in failed
    /\ Len(opens) = 2 /\ opens[2][3]
    /\ nopen = 0

-----------------------------------------------------------------------------
(* C20: handle_client terminates whenever its calls return. For a          *)
(* transport whose sends return a negative value or a count from 0 up to   *)
(* the number of bytes offered, every send call moves handle_client on:    *)
(* the inner send loop makes progress (more of the chunk is sent) or       *)
(* aborts, and no send call leaves handle_client in the state it was in,   *)
(* where the same call would be made again; so the connection is closed    *)
(* after finitely many send calls.                                         *)
ProgramState == <<pc, lvars, delivered>>

C20_EverySendMovesOn ==
    [][(nsend' # nsend)
          => /\ ProgramState' # ProgramState
             /\ pc = "send_body" => (sent' > sent \/ pc' = "shutdown")]_vars

=============================================================================
